---- MODULE Spec2Model ----
(***************************************************************************)
(* A model of server.js: the room registry, the files and presence tables  *)
(* of the SQLite database, the in-memory SSE client registry and the HTTP  *)
(* handlers that read and write them.  Node runs each handler to its end   *)
(* before the next event is taken and better-sqlite3 is synchronous, so    *)
(* one handler is one atomic action.                                       *)
(***************************************************************************)
EXTENDS Integers, Sequences, FiniteSets, TLC

VARIABLES rooms, files, presence, roomClients, conns, now, last

vars == <<rooms, files, presence, roomClients, conns, now, last>>

(***************************************************************************)
(* Bounds of the model.                                                    *)
(***************************************************************************)
\* last second the clock reaches in the file and stream specifications
MaxTime == 1
\* last second the clock reaches in the presence specification
MaxPresenceTime == 16
\* number of SSE connections ever opened
MaxConn == 2
\* number of events kept per connection
MaxLog == 3
\* the keep-alive comments the model counts per connection
MaxBeats == 1

\* the characters of the alphabet of generateRoomCode that the model draws;
\* a code of the model has one of them where the code of the program has four
CodeChars == {"A", "B"}
Filenames == {"a.txt", "b.txt", "c.txt"}
Users == {"ann", "ben"}
Colors == {"red"}
\* a field that is missing from the request (JavaScript's undefined)
Undef == "undefined"
Contents == {"x"}

(***************************************************************************)
(* String.prototype.toUpperCase on sequences of characters.                *)
(***************************************************************************)
LowerChars == <<"a", "b", "m", "o", "n", "k">>
UpperChars == <<"A", "B", "M", "O", "N", "K">>

toUpperChar(c) ==
    IF \E i \in DOMAIN LowerChars : LowerChars[i] = c
    THEN UpperChars[CHOOSE i \in DOMAIN LowerChars : LowerChars[i] = c]
    ELSE c

toLowerChar(c) ==
    IF \E i \in DOMAIN UpperChars : UpperChars[i] = c
    THEN LowerChars[CHOOSE i \in DOMAIN UpperChars : UpperChars[i] = c]
    ELSE c

\* a handler that looks the room up as the path spells it
keepCase(s) == s

toUpperCase(s) == [i \in DOMAIN s |-> toUpperChar(s[i])]

toLowerCase(s) == [i \in DOMAIN s |-> toLowerChar(s[i])]

(***************************************************************************)
(* generateRoomCode: 'MONK-' followed by characters of the alphabet.       *)
(* RoomCodes is the set of values it can return.                           *)
(***************************************************************************)
Prefix == <<"M", "O", "N", "K", "-">>

RoomCodes == {Prefix \o <<c>> : c \in CodeChars}

\* the room ids a caller may put in a URL: any code, upper or lower case
RequestIds == RoomCodes \cup {toLowerCase(id) : id \in RoomCodes}

(***************************************************************************)
(* The prepared statements (stmts).  A table is the set of its rows.       *)
(***************************************************************************)
roomExists(rs, id) == id \in rs

\* a createRoom whose INSERT is lost
createRoomLost(rs, id) == rs

createRoom(rs, id) == rs \cup {id}

fileRows(fs, roomId, filename) ==
    {r \in fs : r.room_id = roomId /\ r.filename = filename}

getRoomFiles(fs, roomId) ==
    {[filename |-> r.filename, content |-> r.content] : r \in {q \in fs : q.room_id = roomId}}

\* an upsert whose ON CONFLICT clause sets the content and leaves updated_at
upsertFileContentOnly(fs, roomId, filename, content, t) ==
    IF fileRows(fs, roomId, filename) = {}
    THEN fs \cup {[room_id |-> roomId, filename |-> filename, content |-> content, updated_at |-> t]}
    ELSE (fs \ fileRows(fs, roomId, filename))
            \cup {[r EXCEPT !.content = content] : r \in fileRows(fs, roomId, filename)}

\* an upsert that leaves a row alone when the content is the one it has
upsertFileIfChanged(fs, roomId, filename, content, t) ==
    IF \E r \in fileRows(fs, roomId, filename) : r.content = content
    THEN fs
    ELSE (fs \ fileRows(fs, roomId, filename))
            \cup {[room_id |-> roomId, filename |-> filename, content |-> content, updated_at |-> t]}

upsertFile(fs, roomId, filename, content, t) ==
    (fs \ fileRows(fs, roomId, filename))
        \cup {[room_id |-> roomId, filename |-> filename, content |-> content, updated_at |-> t]}

\* a deleteFile whose WHERE clause names the room only
deleteFileAllRoom(fs, roomId, filename) == {r \in fs : r.room_id # roomId}

deleteFile(fs, roomId, filename) == fs \ fileRows(fs, roomId, filename)

\* a rename that never finds the new name taken
renameConflictNever(fs, roomId, filename, newName) == FALSE

\* a rename that fails whenever the new name is taken, also when no row has
\* the old one
renameConflictTarget(fs, roomId, filename, newName) ==
    /\ newName # filename
    /\ fileRows(fs, roomId, newName) # {}

\* UPDATE ... SET filename = newName: SQLite aborts the statement when the
\* new (room_id, filename) is already taken by another row.
renameConflict(fs, roomId, filename, newName) ==
    /\ fileRows(fs, roomId, filename) # {}
    /\ newName # filename
    /\ fileRows(fs, roomId, newName) # {}

\* a rename that writes a fresh row under the new name and loses the content
renameFileEmpty(fs, roomId, filename, newName, t) ==
    (fs \ fileRows(fs, roomId, filename))
        \cup {[r EXCEPT !.filename = newName, !.content = "", !.updated_at = t] :
                r \in fileRows(fs, roomId, filename)}

renameFile(fs, roomId, filename, newName, t) ==
    (fs \ fileRows(fs, roomId, filename))
        \cup {[r EXCEPT !.filename = newName, !.updated_at = t] : r \in fileRows(fs, roomId, filename)}

presenceRows(ps, roomId, userName) ==
    {r \in ps : r.room_id = roomId /\ r.user_name = userName}

upsertPresence(ps, roomId, userName, userColor, editingFile, t) ==
    (ps \ presenceRows(ps, roomId, userName))
        \cup {[room_id |-> roomId, user_name |-> userName, user_color |-> userColor,
               editing_file |-> editingFile, last_seen |-> t]}

\* the time to live of a presence row, in seconds
TTL == 15

\* a getPresence that still returns a row at the second its time to live ends
getPresenceInclusive(ps, roomId, t) ==
    {[user_name |-> r.user_name, user_color |-> r.user_color, editing_file |-> r.editing_file] :
        r \in {q \in ps : q.room_id = roomId /\ q.last_seen >= t - TTL}}

getPresence(ps, roomId, t) ==
    {[user_name |-> r.user_name, user_color |-> r.user_color, editing_file |-> r.editing_file] :
        r \in {q \in ps : q.room_id = roomId /\ q.last_seen > t - TTL}}

\* a deletePresence that removes nothing
deletePresenceNone(ps, roomId, userName) == ps

\* a deletePresence whose WHERE clause names the user only
deletePresenceAnyRoom(ps, roomId, userName) == {r \in ps : r.user_name # userName}

deletePresence(ps, roomId, userName) == ps \ presenceRows(ps, roomId, userName)

(***************************************************************************)
(* JavaScript's `v || d` on a request field, and the check better-sqlite3  *)
(* makes on a bound parameter (undefined cannot be bound: run() throws).   *)
(***************************************************************************)
orElse(v, d) == IF v = Undef \/ v = "" THEN d ELSE v

bindable(v) == v # Undef

\* files.forEach(f => fileMap[f.filename] = f.content)
fileMapOf(rows) ==
    [f \in {r.filename : r \in rows} |-> (CHOOSE r \in rows : r.filename = f).content]

(***************************************************************************)
(* The SSE client registry.  roomClients maps a room id to the set of the  *)
(* connections registered for it; conns holds, per connection, the user    *)
(* name it registered under, the state of its socket, the events written   *)
(* to it that arrived (recv), whether a write to it was lost (failed) and   *)
(* the number of keep-alive comments that arrived (beats).                 *)
(* A socket is "open", "broken" (the peer is gone and the close event has  *)
(* not run yet: writes are lost and the error is swallowed) or "closed".   *)
(***************************************************************************)
ConnIds == 1..MaxConn

FreeConn ==
    [state |-> "free", roomId |-> <<>>, userName |-> "", recv |-> <<>>, failed |-> FALSE, beats |-> 0]

\* a connection after its close handler: the client object is dropped
ClosedConn ==
    [state |-> "closed", roomId |-> <<>>, userName |-> "", recv |-> <<>>, failed |-> FALSE, beats |-> 0]

getRoomClients(rc, roomId) ==
    IF roomId \in DOMAIN rc
    THEN rc
    ELSE [k \in DOMAIN rc \cup {roomId} |-> IF k = roomId THEN {} ELSE rc[k]]

clientsOf(rc, roomId) == IF roomId \in DOMAIN rc THEN rc[roomId] ELSE {}

\* a write that puts the event before the ones written earlier
writeFront(conn, ev) ==
    IF conn.state = "open"
    THEN [conn EXCEPT !.recv = <<ev>> \o @]
    ELSE [conn EXCEPT !.failed = TRUE]

\* try { client.res.write(payload); } catch(e) {}
write(conn, ev) ==
    IF conn.state = "open"
    THEN [conn EXCEPT !.recv = Append(@, ev)]
    ELSE [conn EXCEPT !.failed = TRUE]

\* a broadcast that echoes the event back to the sender
broadcastEcho(cs, rc, roomId, senderUserName, ev) ==
    [c \in DOMAIN cs |-> IF c \in clientsOf(rc, roomId) THEN write(cs[c], ev) ELSE cs[c]]

broadcast(cs, rc, roomId, senderUserName, ev) ==
    [c \in DOMAIN cs |->
        IF c \in clientsOf(rc, roomId) /\ cs[c].userName # senderUserName
        THEN write(cs[c], ev)
        ELSE cs[c]]

broadcastAll(cs, rc, roomId, ev) ==
    [c \in DOMAIN cs |-> IF c \in clientsOf(rc, roomId) THEN write(cs[c], ev) ELSE cs[c]]

\* the events of the stream
Event(name, data) == [event |-> name, data |-> data]

presenceEvent(ps, roomId, t) == Event("presence", [users |-> getPresence(ps, roomId, t)])

\* the model keeps MaxLog events per connection: a handler runs when every
\* open connection it writes to has place for one more
hasPlace(recipients) ==
    \A c \in recipients : conns[c].state = "open" => Len(conns[c].recv) < MaxLog

\* the connections of a room that are not registered under the sender's name
others(roomId, senderUserName) ==
    {c \in clientsOf(roomClients, roomId) : conns[c].userName # senderUserName}

(***************************************************************************)
(* last records the outcome of the handler that ran in the last step: the  *)
(* request, the response it got and the events it published (pub).  It is  *)
(* Idle after a step in which no handler ran.  prev holds the rows the      *)
(* request names (the file, or the presence entry) as they were before.    *)
(***************************************************************************)
NoPub == <<>>

Pub(roomId, exclude, ev) == <<[roomId |-> roomId, exclude |-> exclude, ev |-> ev]>>

Outcome(op, id, filename, arg, userName, status, body, pub, conn, prev) ==
    [op |-> op, roomId |-> id, filename |-> filename, arg |-> arg, userName |-> userName,
     status |-> status, body |-> body, pub |-> pub, conn |-> conn, prev |-> prev]

NotFound == "Room not found"
Ok == "ok"
Thrown == "error"

Idle == [op |-> "none", roomId |-> <<>>, filename |-> "", arg |-> "", userName |-> "",
         status |-> 0, body |-> "", pub |-> NoPub, conn |-> 0, prev |-> {}]

Init ==
    /\ rooms = {}
    /\ files = {}
    /\ presence = {}
    /\ roomClients = <<>>
    /\ conns = [c \in ConnIds |-> FreeConn]
    /\ now = 0
    /\ last = Idle

(***************************************************************************)
(* The clock of strftime('%s','now'): whole seconds.                       *)
(***************************************************************************)
Tick(limit) ==
    /\ now < limit
    /\ now' = now + 1
    /\ last' = Idle
    /\ UNCHANGED <<rooms, files, presence, roomClients, conns>>

(***************************************************************************)
(* POST /api/rooms and GET /api/rooms/:id                                  *)
(*                                                                         *)
(* A handler H of a route with a room id is written HAs(req, id, ...): the *)
(* handler run on the path parameter id, for a request that last records   *)
(* as having named req; H(id, ...) is HAs(id, id, ...).                     *)
(***************************************************************************)
CreateRoom ==
    \E id \in RoomCodes :
        \* do { id = generateRoomCode(); } while (stmts.roomExists.get(id));
        /\ ~roomExists(rooms, id)
        /\ rooms' = createRoom(rooms, id)
        /\ last' = Outcome("createRoom", id, "", "", "", 200, id, NoPub, 0, {})
        /\ UNCHANGED <<files, presence, roomClients, conns, now>>

GetRoomAs(req, id) ==
    LET roomId == toUpperCase(id) IN
    /\ last' = IF roomExists(rooms, roomId)
               THEN Outcome("getRoom", req, "", "", "", 200, roomId, NoPub, 0, {})
               ELSE Outcome("getRoom", req, "", "", "", 404, NotFound, NoPub, 0, {})
    /\ UNCHANGED <<rooms, files, presence, roomClients, conns, now>>

GetRoom(id) == GetRoomAs(id, id)

(***************************************************************************)
(* GET /api/rooms/:id/stream and its close handler                         *)
(***************************************************************************)
\* the connection object of the next request: connections are never reused
nextConn ==
    CHOOSE c \in ConnIds :
        conns[c].state = "free" /\ \A d \in ConnIds : d < c => conns[d].state # "free"

\* an init event that is written before the files are read
initEventEmpty(fs, roomId) == Event("init", [files |-> fileMapOf({})])

initEvent(fs, roomId) == Event("init", [files |-> fileMapOf(getRoomFiles(fs, roomId))])

StreamAs(req, id, qUserName) ==
    LET roomId == toUpperCase(id)
        userName == orElse(qUserName, "Unknown")
    IN
    /\ IF ~roomExists(rooms, roomId)
       THEN /\ last' = Outcome("stream", req, "", "", qUserName, 404, NotFound, NoPub, 0, {})
            /\ UNCHANGED <<roomClients, conns>>
       ELSE LET c == nextConn
                \* getRoomClients(roomId).add(client)
                rc0 == getRoomClients(roomClients, roomId)
                rc1 == [rc0 EXCEPT ![roomId] = @ \cup {c}]
                client == [state |-> "open", roomId |-> roomId, userName |-> userName,
                           recv |-> <<>>, failed |-> FALSE, beats |-> 0]
                \* res.write(`event: init ...`)
                cs1 == [conns EXCEPT ![c] = write(client, initEvent(files, roomId))]
                ev == presenceEvent(presence, roomId, now)
            IN
            /\ \E d \in ConnIds : conns[d].state = "free"
            /\ hasPlace(clientsOf(roomClients, roomId))
            /\ roomClients' = rc1
            /\ conns' = broadcastAll(cs1, rc1, roomId, ev)
            /\ last' = Outcome("stream", req, "", "", qUserName, 200, "",
                               Pub(roomId, Undef, ev), c, {})
    /\ UNCHANGED <<rooms, files, presence, now>>

Stream(id, qUserName) == StreamAs(id, id, qUserName)

\* req.on('close', ...)
Close(c) ==
    LET roomId == conns[c].roomId
        userName == conns[c].userName
        rc0 == getRoomClients(roomClients, roomId)
        rc1 == [rc0 EXCEPT ![roomId] = @ \ {c}]
        ps1 == deletePresence(presence, roomId, userName)
        ev == presenceEvent(ps1, roomId, now)
    IN
    /\ conns[c].state \in {"open", "broken"}
    /\ hasPlace(clientsOf(roomClients, roomId) \ {c})
    /\ roomClients' = rc1
    /\ presence' = ps1
    /\ conns' = broadcastAll([conns EXCEPT ![c] = ClosedConn], rc1, roomId, ev)
    /\ last' = Outcome("close", roomId, "", "", userName, 0, "", Pub(roomId, Undef, ev), c,
                       presenceRows(presence, roomId, userName))
    /\ UNCHANGED <<rooms, files, now>>

\* an interval that is never cleared
heartbeatActiveForever(conn) == conn.state # "free"

\* the interval of line 131 runs until clearInterval(heartbeat) in the close handler
heartbeatActive(conn) == conn.state \in {"open", "broken"}

\* setInterval(() => { try { res.write(': heartbeat\n\n'); } catch(e) {} }, 20000)
Heartbeat(c) ==
    /\ heartbeatActive(conns[c])
    /\ conns[c].beats < MaxBeats
    /\ conns' = [conns EXCEPT ![c] = IF @.state = "open"
                                     THEN [@ EXCEPT !.beats = @ + 1]
                                     ELSE [@ EXCEPT !.failed = TRUE]]
    /\ last' = Idle
    /\ UNCHANGED <<rooms, files, presence, roomClients, now>>

\* the peer of a connection goes away; the server has not seen it yet
Break(c) ==
    /\ conns[c].state = "open"
    /\ conns' = [conns EXCEPT ![c].state = "broken"]
    /\ last' = Idle
    /\ UNCHANGED <<rooms, files, presence, roomClients, now>>

(***************************************************************************)
(* The file handlers                                                       *)
(***************************************************************************)
ListFilesAs(req, id) ==
    LET roomId == toUpperCase(id) IN
    /\ last' = IF roomExists(rooms, roomId)
               THEN Outcome("listFiles", req, "", "", "", 200,
                            fileMapOf(getRoomFiles(files, roomId)), NoPub, 0, {})
               ELSE Outcome("listFiles", req, "", "", "", 404, NotFound, NoPub, 0, {})
    /\ UNCHANGED <<rooms, files, presence, roomClients, conns, now>>

ListFiles(id) == ListFilesAs(id, id)

UpsertFileAs(req, id, filename, content, userName) ==
    LET roomId == toUpperCase(id)
        ev == Event("file:update", [filename |-> filename, content |-> orElse(content, "")])
        prev == fileRows(files, roomId, filename)
        reply(status, body, pub) ==
            Outcome("upsertFile", req, filename, content, userName, status, body, pub, 0, prev)
    IN
    /\ IF ~roomExists(rooms, roomId)
       THEN /\ last' = reply(404, NotFound, NoPub)
            /\ UNCHANGED <<files, roomClients, conns>>
       ELSE IF ~bindable(filename)
       THEN \* stmts.upsertFile.run throws: nothing is written or published
            /\ last' = reply(500, Thrown, NoPub)
            /\ UNCHANGED <<files, roomClients, conns>>
       ELSE /\ hasPlace(others(roomId, userName))
            /\ files' = upsertFile(files, roomId, filename, orElse(content, ""), now)
            /\ roomClients' = getRoomClients(roomClients, roomId)
            /\ conns' = broadcast(conns, roomClients, roomId, userName, ev)
            /\ last' = reply(200, Ok, Pub(roomId, userName, ev))
    /\ UNCHANGED <<rooms, presence, now>>

UpsertFile(id, filename, content, userName) ==
    UpsertFileAs(id, id, filename, content, userName)

DeleteFileAs(req, id, filename, userName) ==
    LET roomId == toUpperCase(id)
        ev == Event("file:delete", [filename |-> filename])
        prev == fileRows(files, roomId, filename)
    IN
    /\ hasPlace(others(roomId, userName))
    /\ files' = deleteFile(files, roomId, filename)
    /\ roomClients' = getRoomClients(roomClients, roomId)
    /\ conns' = broadcast(conns, roomClients, roomId, userName, ev)
    /\ last' = Outcome("deleteFile", req, filename, "", userName, 200, Ok,
                       Pub(roomId, userName, ev), 0, prev)
    /\ UNCHANGED <<rooms, presence, now>>

DeleteFile(id, filename, userName) == DeleteFileAs(id, id, filename, userName)

RenameFileAs(req, id, filename, newName, userName) ==
    LET roomId == toUpperCase(id)
        ev == Event("file:rename", [oldName |-> filename, newName |-> newName])
        prev == fileRows(files, roomId, filename)
        reply(status, body, pub) ==
            Outcome("renameFile", req, filename, newName, userName, status, body, pub, 0, prev)
    IN
    /\ IF ~bindable(newName) \/ renameConflict(files, roomId, filename, newName)
       THEN \* stmts.renameFile.run throws: nothing is written or published
            /\ last' = reply(500, Thrown, NoPub)
            /\ UNCHANGED <<files, roomClients, conns>>
       ELSE /\ hasPlace(others(roomId, userName))
            /\ files' = renameFile(files, roomId, filename, newName, now)
            /\ roomClients' = getRoomClients(roomClients, roomId)
            /\ conns' = broadcast(conns, roomClients, roomId, userName, ev)
            /\ last' = reply(200, Ok, Pub(roomId, userName, ev))
    /\ UNCHANGED <<rooms, presence, now>>

\* a rename handler that publishes before it runs the statement
RenameFilePublishFirst(id, filename, newName, userName) ==
    LET roomId == toUpperCase(id)
        ev == Event("file:rename", [oldName |-> filename, newName |-> newName])
        prev == fileRows(files, roomId, filename)
        reply(status, body, pub) ==
            Outcome("renameFile", id, filename, newName, userName, status, body, pub, 0, prev)
    IN
    /\ hasPlace(others(roomId, userName))
    /\ roomClients' = getRoomClients(roomClients, roomId)
    /\ conns' = broadcast(conns, roomClients, roomId, userName, ev)
    /\ IF ~bindable(newName) \/ renameConflict(files, roomId, filename, newName)
       THEN /\ files' = files
            /\ last' = reply(500, Thrown, Pub(roomId, userName, ev))
       ELSE /\ files' = renameFile(files, roomId, filename, newName, now)
            /\ last' = reply(200, Ok, Pub(roomId, userName, ev))
    /\ UNCHANGED <<rooms, presence, now>>

RenameFile(id, filename, newName, userName) ==
    RenameFileAs(id, id, filename, newName, userName)

(***************************************************************************)
(* The presence handlers                                                   *)
(***************************************************************************)
UpsertPresenceAs(req, id, userName, userColor, editingFile) ==
    LET roomId == toUpperCase(id)
        ps1 == upsertPresence(presence, roomId, userName, userColor,
                              orElse(editingFile, ""), now)
        ev == presenceEvent(ps1, roomId, now)
        prev == presenceRows(presence, roomId, userName)
        reply(status, body, pub) ==
            Outcome("upsertPresence", req, editingFile, userColor, userName, status, body,
                    pub, 0, prev)
    IN
    /\ IF ~roomExists(rooms, roomId)
       THEN /\ last' = reply(404, NotFound, NoPub)
            /\ UNCHANGED <<presence, roomClients, conns>>
       ELSE IF ~bindable(userName) \/ ~bindable(userColor)
       THEN \* stmts.upsertPresence.run throws: nothing is written or published
            /\ last' = reply(500, Thrown, NoPub)
            /\ UNCHANGED <<presence, roomClients, conns>>
       ELSE /\ hasPlace(clientsOf(roomClients, roomId))
            /\ presence' = ps1
            /\ roomClients' = getRoomClients(roomClients, roomId)
            /\ conns' = broadcastAll(conns, roomClients, roomId, ev)
            /\ last' = reply(200, Ok, Pub(roomId, Undef, ev))
    /\ UNCHANGED <<rooms, files, now>>

\* a presence handler that publishes with broadcast, as the file handlers do,
\* and so leaves out the connections of the request's user
UpsertPresenceNoEcho(id, userName, userColor, editingFile) ==
    LET roomId == toUpperCase(id)
        ps1 == upsertPresence(presence, roomId, userName, userColor,
                              orElse(editingFile, ""), now)
        ev == presenceEvent(ps1, roomId, now)
        prev == presenceRows(presence, roomId, userName)
        reply(status, body, pub) ==
            Outcome("upsertPresence", id, editingFile, userColor, userName, status, body,
                    pub, 0, prev)
    IN
    /\ IF ~roomExists(rooms, roomId)
       THEN /\ last' = reply(404, NotFound, NoPub)
            /\ UNCHANGED <<presence, roomClients, conns>>
       ELSE /\ hasPlace(clientsOf(roomClients, roomId))
            /\ presence' = ps1
            /\ roomClients' = getRoomClients(roomClients, roomId)
            /\ conns' = broadcast(conns, roomClients, roomId, userName, ev)
            /\ last' = reply(200, Ok, Pub(roomId, Undef, ev))
    /\ UNCHANGED <<rooms, files, now>>

UpsertPresence(id, userName, userColor, editingFile) ==
    UpsertPresenceAs(id, id, userName, userColor, editingFile)

DeletePresenceAs(req, id, userName) ==
    LET roomId == toUpperCase(id)
        ps1 == deletePresence(presence, roomId, userName)
        ev == presenceEvent(ps1, roomId, now)
        prev == presenceRows(presence, roomId, userName)
    IN
    /\ hasPlace(clientsOf(roomClients, roomId))
    /\ presence' = ps1
    /\ roomClients' = getRoomClients(roomClients, roomId)
    /\ conns' = broadcastAll(conns, roomClients, roomId, ev)
    /\ last' = Outcome("deletePresence", req, "", "", userName, 200, Ok,
                       Pub(roomId, Undef, ev), 0, prev)
    /\ UNCHANGED <<rooms, files, now>>

DeletePresence(id, userName) == DeletePresenceAs(id, id, userName)

(***************************************************************************)
(* The requests of the callers, with the values their fields are drawn     *)
(* from.  A field drawn from a set with Undef may be missing.              *)
(***************************************************************************)
Opt(S) == S \cup {Undef}

GetRoomReq(ids) == \E id \in ids : GetRoom(id)

StreamReq(ids, users) == \E id \in ids, u \in users : Stream(id, u)

CloseEvent == \E c \in ConnIds : Close(c)

BreakEvent == \E c \in ConnIds : Break(c)

HeartbeatEvent == \E c \in ConnIds : Heartbeat(c)

ListFilesReq(ids) == \E id \in ids : ListFiles(id)

UpsertFileReq(ids, names, contents, users) ==
    \E id \in ids, f \in names, content \in contents, u \in users : UpsertFile(id, f, content, u)

DeleteFileReq(ids, names, users) ==
    \E id \in ids, f \in names, u \in users : DeleteFile(id, f, u)

RenameFileReq(ids, names, newNames, users) ==
    \E id \in ids, f \in names, n \in newNames, u \in users : RenameFile(id, f, n, u)

UpsertPresenceReq(ids, users, colors, names) ==
    \E id \in ids, u \in users, col \in colors, f \in names : UpsertPresence(id, u, col, f)

DeletePresenceReq(ids, users) == \E id \in ids, u \in users : DeletePresence(id, u)

(***************************************************************************)
(* The whole program, from an empty database.                              *)
(***************************************************************************)
Next ==
    \/ CreateRoom
    \/ GetRoomReq(RequestIds)
    \/ StreamReq(RequestIds, Opt(Users))
    \/ CloseEvent
    \/ BreakEvent
    \/ HeartbeatEvent
    \/ ListFilesReq(RequestIds)
    \/ UpsertFileReq(RequestIds, Opt(Filenames), Opt(Contents), Opt(Users))
    \/ DeleteFileReq(RequestIds, Filenames, Opt(Users))
    \/ RenameFileReq(RequestIds, Filenames, Opt(Filenames), Opt(Users))
    \/ UpsertPresenceReq(RequestIds, Opt(Users), Opt(Colors), Opt(Filenames))
    \/ DeletePresenceReq(RequestIds, Users)
    \/ Tick(MaxTime)

Spec == Init /\ [][Next]_vars

(***************************************************************************)
(* The rooms and their files: no stream is open, and the file requests     *)
(* name one room, before and after that room is created; the lookups and   *)
(* the upserts name it by its code or by its lower-case spelling.          *)
(***************************************************************************)
RoomA == CHOOSE id \in RoomCodes : TRUE

IdsA == {RoomA, toLowerCase(RoomA)}

NextFiles ==
    \/ CreateRoom
    \/ GetRoomReq(RequestIds)
    \/ ListFilesReq(IdsA)
    \/ UpsertFileReq(IdsA, Opt(Filenames), Opt(Contents), {"ann"})
    \/ DeleteFileReq({RoomA}, Filenames, {"ann"})
    \/ RenameFileReq({RoomA}, Filenames, Opt(Filenames), {"ann"})
    \/ Tick(MaxTime)

SpecFiles == Init /\ [][NextFiles]_vars

(***************************************************************************)
(* The presence entries of one room over the seconds of their time to      *)
(* live: no stream is open.                                                *)
(***************************************************************************)
NextPresence ==
    \/ CreateRoom
    \/ UpsertPresenceReq(IdsA, Users, Colors, {Undef})
    \/ DeletePresenceReq(IdsA, Users)
    \/ Tick(MaxPresenceTime)

SpecPresence == Init /\ [][NextPresence]_vars

(***************************************************************************)
(* The streams of one room, with one file that is written (by a request    *)
(* with or without a user name), renamed and deleted, and the presence     *)
(* entry of one user.                                                      *)
(***************************************************************************)
NextStream ==
    \/ CreateRoom
    \/ StreamReq({RoomA}, Users)
    \/ CloseEvent
    \/ BreakEvent
    \/ UpsertFileReq({RoomA}, {"a.txt"}, Contents, Opt({"ann"}))
    \/ DeleteFileReq({RoomA}, {"a.txt"}, {"ann"})
    \/ RenameFileReq({RoomA}, {"a.txt"}, {"b.txt"}, {"ann"})
    \/ UpsertPresenceReq({RoomA}, {"ben"}, Colors, {Undef})

SpecStream == Init /\ [][NextStream]_vars

(***************************************************************************)
(* The properties of the rooms and the files.                              *)
(***************************************************************************)
\* the room a request names, as the handlers look it up
RoomOf(o) == toUpperCase(o.roomId)

RoomOps == {"stream", "listFiles", "upsertFile", "deleteFile", "renameFile",
            "upsertPresence", "deletePresence"}

listFiles(fs, roomId) == fileMapOf(getRoomFiles(fs, roomId))

\* C1: a room id returned by createRoom exists right afterwards (and was free
\* before), no code exists before createRoom has returned it, and the room
\* lookup answers 200 exactly for the ids that exist.
C1_CreatedRoomsExist ==
    /\ \A id \in RequestIds : ~roomExists(rooms, id)
    /\ [][/\ last'.op = "createRoom" =>
                /\ last'.status = 200
                /\ ~roomExists(rooms, last'.body)
                /\ roomExists(rooms', last'.body)
          /\ \A id \in RequestIds :
                roomExists(rooms', id) /\ ~roomExists(rooms, id) =>
                    last'.op = "createRoom" /\ last'.body = id
          /\ \A id \in RequestIds : roomExists(rooms, id) => roomExists(rooms', id)
          /\ last'.op = "getRoom" =>
                IF roomExists(rooms', RoomOf(last'))
                THEN last'.status = 200 /\ last'.body = RoomOf(last')
                ELSE last'.status = 404]_vars

\* a room has just been created while another code was never returned
C1_Witness ==
    /\ last.op = "createRoom"
    /\ roomExists(rooms, last.body)
    /\ \E id \in RoomCodes : ~roomExists(rooms, id)

\* C2: after an upsert that succeeded the room holds exactly one row for the
\* file name, and its content and its updated_at are both the ones of this
\* call, the one whose statement ran last; listFiles shows that content.
C2_LastWriteWins ==
    last.op = "upsertFile" /\ last.status = 200 =>
        /\ fileRows(files, RoomOf(last), last.filename) =
              {[room_id |-> RoomOf(last), filename |-> last.filename,
                content |-> orElse(last.arg, ""), updated_at |-> now]}
        /\ last.filename \in DOMAIN listFiles(files, RoomOf(last))
        /\ listFiles(files, RoomOf(last))[last.filename] = orElse(last.arg, "")

\* an upsert has overwritten a row written at another second with another content
C2_Witness ==
    /\ last.op = "upsertFile"
    /\ last.status = 200
    /\ \E p \in last.prev : p.content # orElse(last.arg, "") /\ p.updated_at # now

C9_NotFound ==
    last.op \in RoomOps /\ ~roomExists(rooms, RoomOf(last)) =>
        last.status = 404 /\ last.pub = NoPub

\* C10: a rename of a file that exists to a name that is free is answered
\* 200; afterwards the new name has the content the old name had, the old
\* name is gone, and every other row of the table is as it was.
C10_RenameMovesContent ==
    [][\A id \in RequestIds, old \in Filenames, new \in Filenames :
          LET roomId == toUpperCase(id) IN
          /\ last'.op = "renameFile"
          /\ last'.roomId = id /\ last'.filename = old /\ last'.arg = new
          /\ fileRows(files, roomId, old) # {}
          /\ fileRows(files, roomId, new) = {}
          => /\ last'.status = 200
             /\ new \in DOMAIN listFiles(files', roomId)
             /\ listFiles(files', roomId)[new] = listFiles(files, roomId)[old]
             /\ old \notin DOMAIN listFiles(files', roomId)
             /\ Cardinality(fileRows(files', roomId, new)) = 1
             /\ {r \in files' : ~(r.room_id = roomId /\ r.filename \in {old, new})}
                   = {r \in files : ~(r.room_id = roomId /\ r.filename \in {old, new})}]_vars

\* a file with content has been renamed to a free name beside a third file
C10_Witness ==
    /\ last.op = "renameFile"
    /\ last.status = 200
    /\ last.arg # last.filename
    /\ \E p \in last.prev : p.content # ""
    /\ fileRows(files, RoomOf(last), last.arg) # {}
    /\ \E r \in files : r.room_id = RoomOf(last) /\ r.filename \notin {last.arg, last.filename}

(***************************************************************************)
(* The properties of the presence entries.                                 *)
(***************************************************************************)
\* what getPresence selects of a row
entryOf(r) == [user_name |-> r.user_name, user_color |-> r.user_color, editing_file |-> r.editing_file]

\* C7: the entry of an upsertPresence that succeeded is in the live list at
\* once; at every moment a stored row is in the live list of its room
\* exactly while now - last_seen < TTL, whether or not it was removed; and
\* a handler that publishes the live list publishes exactly those entries.
C7_LiveWhileWithinTTL ==
    /\ last.op = "upsertPresence" /\ last.status = 200 =>
          [user_name |-> last.userName, user_color |-> last.arg,
           editing_file |-> orElse(last.filename, "")] \in getPresence(presence, RoomOf(last), now)
    /\ \A r \in presence :
          entryOf(r) \in getPresence(presence, r.room_id, now) <=> now - r.last_seen < TTL
    /\ \A i \in DOMAIN last.pub :
          last.pub[i].ev.event = "presence" =>
              last.pub[i].ev.data.users =
                  {entryOf(r) : r \in {q \in presence :
                      q.room_id = last.pub[i].roomId /\ now - q.last_seen < TTL}}

\* a row whose time to live has just ended is still stored and not in the
\* list, beside a row one second younger that is in the list
C7_Witness ==
    \E r, q \in presence :
        /\ r.room_id = q.room_id
        /\ now - r.last_seen = TTL
        /\ entryOf(r) \notin getPresence(presence, r.room_id, now)
        /\ now - q.last_seen = TTL - 1
        /\ entryOf(q) \in getPresence(presence, q.room_id, now)

(***************************************************************************)
(* The properties of the streams.                                          *)
(***************************************************************************)
FileOps == {"upsertFile", "deleteFile", "renameFile"}

\* the connection received ev as its latest event, or lost it: its peer is gone
written(before, after, ev) ==
    IF before.state = "open"
    THEN after = [before EXCEPT !.recv = Append(@, ev)]
    ELSE after = [before EXCEPT !.failed = TRUE]

\* C4: the event of a file request that succeeded is written once to every
\* connection registered for the room under another user name than the
\* request's (it arrives unless the peer is gone), and no other connection,
\* in particular none registered under that user name, gets anything.
C4_ExcludesSender ==
    [][last'.op \in FileOps /\ last'.status = 200 =>
          /\ Len(last'.pub) = 1
          /\ last'.pub[1].roomId = RoomOf(last')
          /\ last'.pub[1].exclude = last'.userName
          /\ \A c \in ConnIds :
                IF /\ c \in clientsOf(roomClients, RoomOf(last'))
                   /\ conns[c].userName # last'.userName
                THEN written(conns[c], conns'[c], last'.pub[1].ev)
                ELSE conns'[c] = conns[c]]_vars

\* a file event has reached a connection of another user and not one of the sender
C4_Witness ==
    /\ last.op \in FileOps
    /\ last.status = 200
    /\ \E c, d \in clientsOf(roomClients, RoomOf(last)) :
          /\ conns[c].userName = last.userName
          /\ conns[c].state = "open"
          /\ conns[c].recv[Len(conns[c].recv)] # last.pub[1].ev
          /\ conns[d].userName # last.userName
          /\ conns[d].state = "open"
          /\ conns[d].recv[Len(conns[d].recv)] = last.pub[1].ev

\* C5, as claimed: the first event of a new stream is an init event that
\* carries the files of the room and its live presence list.
C5_InitCarriesFilesAndPresence ==
    last.op = "stream" /\ last.status = 200 =>
        LET first == conns[last.conn].recv[1] IN
        /\ first.event = "init"
        /\ first.data.files = listFiles(files, RoomOf(last))
        /\ "users" \in DOMAIN first.data
        /\ first.data.users = getPresence(presence, RoomOf(last), now)

\* C5, amended: a new stream gets an init event first, which carries the
\* files of the room and nothing else and goes to the new connection only;
\* the live presence list follows as a presence event, which is also written
\* to every other connection of the room; no log has an event before its
\* init event or a second init event.
C5_InitThenPresence ==
    /\ \A c \in ConnIds :
          /\ conns[c].recv # <<>> => conns[c].recv[1].event = "init"
          /\ \A i \in 2..Len(conns[c].recv) : conns[c].recv[i].event # "init"
    /\ [][last'.op = "stream" /\ last'.status = 200 =>
            LET c == last'.conn
                roomId == RoomOf(last')
                ev == Event("presence", [users |-> getPresence(presence, roomId, now)])
            IN
            /\ conns[c].state = "free"
            /\ conns'[c].state = "open"
            /\ conns'[c].recv = <<Event("init", [files |-> listFiles(files, roomId)]), ev>>
            /\ last'.pub = Pub(roomId, Undef, ev)
            /\ \A d \in ConnIds \ {c} :
                  IF d \in clientsOf(roomClients, roomId)
                  THEN written(conns[d], conns'[d], ev)
                  ELSE conns'[d] = conns[d]]_vars

\* a stream has just been opened on a room with a file, a live presence
\* entry and another open stream
C5_Witness ==
    /\ last.op = "stream"
    /\ last.status = 200
    /\ DOMAIN listFiles(files, RoomOf(last)) # {}
    /\ getPresence(presence, RoomOf(last), now) # {}
    /\ \E d \in clientsOf(roomClients, RoomOf(last)) \ {last.conn} :
          /\ conns[d].state = "open"
          /\ conns[d].recv[Len(conns[d].recv)] = conns[last.conn].recv[2]

RECURSIVE IsSubseq(_, _)
IsSubseq(s, t) ==
    IF s = <<>> THEN TRUE
    ELSE IF t = <<>> THEN FALSE
    ELSE IF Head(s) = Head(t) THEN IsSubseq(Tail(s), Tail(t))
    ELSE IsSubseq(s, Tail(t))

\* the events a handler published for a room, in the order of its calls
publishedFor(o, roomId) ==
    LET ps == SelectSeq(o.pub, LAMBDA p : p.roomId = roomId)
    IN [i \in DOMAIN ps |-> ps[i].ev]

isInit(e) == e.event = "init"

notInit(e) == e.event # "init"

\* C6: in every step the published events a connection has received are the
\* ones it had, in their order, followed by a subsequence of the events the
\* handler of this step published for the room of the connection, so that
\* the log is a subsequence of the publish sequence of the room.
C6_PublishOrder ==
    [][\A c \in ConnIds :
          conns'[c].state \in {"open", "broken"} =>
              LET old == SelectSeq(conns[c].recv, notInit)
                  new == SelectSeq(conns'[c].recv, notInit)
              IN
              /\ Len(old) <= Len(new)
              /\ SubSeq(new, 1, Len(old)) = old
              /\ IsSubseq(SubSeq(new, Len(old) + 1, Len(new)),
                          publishedFor(last', conns'[c].roomId))]_vars

\* a connection has received two published events that differ, the later
\* one being the event of the last handler
C6_Witness ==
    \E c \in ConnIds :
        /\ conns[c].state = "open"
        /\ Len(conns[c].recv) >= 3
        /\ conns[c].recv[2] # conns[c].recv[3]
        /\ last.pub # NoPub
        /\ conns[c].recv[3] = last.pub[1].ev

\* C8: when the close handler of a connection of user U in room R has run,
\* the connection is no longer registered, no presence row (R, U) is stored,
\* and a presence event with the live list of R, in which U is not, has been
\* written to every connection still registered for R.
C8_CloseRemovesPresence ==
    [][last'.op = "close" =>
          LET c == last'.conn
              roomId == conns[c].roomId
              userName == conns[c].userName
              ev == last'.pub[1].ev
          IN
          /\ c \notin clientsOf(roomClients', roomId)
          /\ presenceRows(presence', roomId, userName) = {}
          /\ ev.event = "presence"
          /\ ev.data.users = getPresence(presence', roomId, now)
          /\ \A e \in ev.data.users : e.user_name # userName
          /\ \A d \in ConnIds \ {c} :
                IF d \in clientsOf(roomClients', roomId)
                THEN written(conns[d], conns'[d], ev)
                ELSE conns'[d] = conns[d]]_vars

\* a stream of a user with a live presence entry has closed and another
\* stream of the room, which had the entry in its previous presence event,
\* has received the presence event
C8_Witness ==
    /\ last.op = "close"
    /\ \E p \in last.prev : now - p.last_seen < TTL
    /\ \E d \in clientsOf(roomClients, last.roomId) :
          /\ conns[d].state = "open"
          /\ conns[d].recv[Len(conns[d].recv)] = last.pub[1].ev
          /\ conns[d].recv[Len(conns[d].recv) - 1].event = "presence"
          /\ \A p \in last.prev : entryOf(p) \in conns[d].recv[Len(conns[d].recv) - 1].data.users

(***************************************************************************)
(* The properties of delete and rename.                                    *)
(***************************************************************************)
\* C11: a room never holds two rows for one file name, and a rename of a file
\* that exists to the name of another file that exists in the room fails: it
\* is answered 500, the table is as it was, so that both files keep their
\* names and contents, and nothing is published or written to a connection.
C11_RenameCollisionFails ==
    /\ [](\A r, q \in files : r.room_id = q.room_id /\ r.filename = q.filename => r = q)
    /\ [][\A old \in Filenames, new \in Filenames :
            LET roomId == RoomOf(last') IN
            /\ new # old
            /\ last'.op = "renameFile"
            /\ last'.filename = old /\ last'.arg = new
            /\ fileRows(files, roomId, old) # {}
            /\ fileRows(files, roomId, new) # {}
            => /\ last'.status = 500
               /\ files' = files
               /\ listFiles(files', roomId)[old] = listFiles(files, roomId)[old]
               /\ listFiles(files', roomId)[new] = listFiles(files, roomId)[new]
               /\ last'.pub = NoPub
               /\ conns' = conns]_vars

\* a rename onto the name of a file with another content has just failed
C11_Witness ==
    /\ last.op = "renameFile"
    /\ last.status = 500
    /\ last.arg \in Filenames \ {last.filename}
    /\ \E p \in last.prev, r \in fileRows(files, RoomOf(last), last.arg) :
          /\ p \in files
          /\ p.content # r.content

\* C12: after a delete the file name is not in the list of the room and every
\* other row is as it was; a delete of a name that is not there (as a second
\* delete in a row is) leaves the table as it was; and a name that is not in
\* the list of a room gets into it only by an upsert of that name or a
\* rename to that name, in that room.
C12_DeleteRemoves ==
    [][/\ last'.op = "deleteFile" =>
            LET roomId == RoomOf(last')
                f == last'.filename
            IN
            /\ last'.status = 200
            /\ f \notin DOMAIN listFiles(files', roomId)
            /\ {r \in files' : ~(r.room_id = roomId /\ r.filename = f)}
                  = {r \in files : ~(r.room_id = roomId /\ r.filename = f)}
            /\ fileRows(files, roomId, f) = {} => files' = files
       /\ \A roomId \in RoomCodes, f \in Filenames :
            /\ f \notin DOMAIN listFiles(files, roomId)
            /\ f \in DOMAIN listFiles(files', roomId)
            => /\ last'.status = 200
               /\ RoomOf(last') = roomId
               /\ \/ last'.op = "upsertFile" /\ last'.filename = f
                  \/ last'.op = "renameFile" /\ last'.arg = f]_vars

\* a file with content has just been deleted beside another file with content
C12_Witness ==
    /\ last.op = "deleteFile"
    /\ \E p \in last.prev : p.content # ""
    /\ fileRows(files, RoomOf(last), last.filename) = {}
    /\ \E r \in files : r.room_id = RoomOf(last) /\ r.content # ""

\* C17: a delete, or a rename that carries a new name, of a file name that
\* is not in a room that exists is answered 200 with the ok body and leaves
\* the files table as it was.
C17_MissingFileNoOp ==
    [][/\ last'.op \in {"deleteFile", "renameFile"}
       /\ roomExists(rooms, RoomOf(last'))
       /\ fileRows(files, RoomOf(last'), last'.filename) = {}
       /\ last'.op = "renameFile" => bindable(last'.arg)
       => /\ last'.status = 200
          /\ last'.body = Ok
          /\ files' = files]_vars

\* a rename of a name that is not there to the name of a file that is has
\* just been answered 200
C17_Witness ==
    /\ last.op = "renameFile"
    /\ last.status = 200
    /\ last.prev = {}
    /\ roomExists(rooms, RoomOf(last))
    /\ last.arg # last.filename
    /\ fileRows(files, RoomOf(last), last.arg) # {}

(***************************************************************************)
(* The streams of one room and the presence entries of its users: no file  *)
(* is written.                                                             *)
(***************************************************************************)
NextPresenceStream ==
    \/ CreateRoom
    \/ StreamReq({RoomA}, Users)
    \/ CloseEvent
    \/ BreakEvent
    \/ UpsertPresenceReq({RoomA}, Users, Colors, {Undef})
    \/ DeletePresenceReq({RoomA}, Users)

SpecPresenceStream == Init /\ [][NextPresenceStream]_vars

\* C13: an upsertPresence that succeeded publishes one presence event, whose
\* user list is the whole live list of the room after the upsert, the entry
\* of the request's user in it, and the event is written once to every
\* connection registered for the room, the ones registered under the
\* request's user name too (it arrives unless the peer is gone); no other
\* connection gets anything.
C13_PresenceToAll ==
    [][last'.op = "upsertPresence" /\ last'.status = 200 =>
          LET roomId == RoomOf(last')
              ev == Event("presence", [users |-> getPresence(presence', roomId, now)])
          IN
          /\ \E e \in ev.data.users : e.user_name = last'.userName
          /\ ev.data.users =
                {entryOf(r) : r \in {q \in presence' : q.room_id = roomId /\ now - q.last_seen < TTL}}
          /\ last'.pub = Pub(roomId, Undef, ev)
          /\ \A c \in ConnIds :
                IF c \in clientsOf(roomClients, roomId)
                THEN written(conns[c], conns'[c], ev)
                ELSE conns'[c] = conns[c]]_vars

\* a user with a stream of their own has upserted their presence beside the
\* live entry of another user: the stream has received the list with both
\* entries, and the other stream of the room was written to as well
C13_Witness ==
    /\ last.op = "upsertPresence"
    /\ last.status = 200
    /\ \E e \in last.pub[1].ev.data.users : e.user_name # last.userName
    /\ \E c, d \in clientsOf(roomClients, RoomOf(last)) :
          /\ conns[c].userName = last.userName
          /\ conns[c].state = "open"
          /\ conns[c].recv[Len(conns[c].recv)] = last.pub[1].ev
          /\ d # c
          /\ conns[d].userName # last.userName

\* C14, as claimed: a connection to which a write has failed is no longer in
\* the client set of its room, so that no later publish writes to it.
C14_FailedWriteDrops ==
    \A c \in ConnIds :
        conns[c].failed => c \notin clientsOf(roomClients, conns[c].roomId)

(***************************************************************************)
(* Two rooms side by side: the streams of one user and the file and        *)
(* presence requests of another, each naming either room, before and after *)
(* it is created.                                                          *)
(***************************************************************************)
NextIsolation ==
    \/ CreateRoom
    \/ StreamReq(RoomCodes, {"ann"})
    \/ CloseEvent
    \/ UpsertFileReq(RoomCodes, {"a.txt"}, Contents, {"ben"})
    \/ DeleteFileReq(RoomCodes, {"a.txt"}, {"ben"})
    \/ RenameFileReq(RoomCodes, {"a.txt"}, {"b.txt"}, {"ben"})
    \/ UpsertPresenceReq(RoomCodes, {"ben"}, Colors, {Undef})
    \/ DeletePresenceReq(RoomCodes, {"ben"})

SpecIsolation == Init /\ [][NextIsolation]_vars

\* C15: a step of a handler, whatever it answers, leaves every room but the
\* one it names as it was: whether the room exists, its file rows, its
\* presence rows, its set of registered connections, and each of its
\* connections with the events it has received and the writes it has lost.
C15_RoomIsolation ==
    [][last'.op # "none" =>
          \A q \in RequestIds \ {RoomOf(last')} :
              /\ roomExists(rooms', q) <=> roomExists(rooms, q)
              /\ {r \in files' : r.room_id = q} = {r \in files : r.room_id = q}
              /\ {r \in presence' : r.room_id = q} = {r \in presence : r.room_id = q}
              /\ clientsOf(roomClients', q) = clientsOf(roomClients, q)
              /\ \A c \in ConnIds :
                    c \in clientsOf(roomClients, q) \/ conns[c].roomId = q \/ conns'[c].roomId = q
                        => conns'[c] = conns[c]]_vars

\* the presence entry of a user has just been removed from one room while
\* another room holds an entry of the same user, a file and an open stream
C15_Witness ==
    /\ last.op = "deletePresence"
    /\ last.prev # {}
    /\ \E q \in RoomCodes \ {RoomOf(last)} :
          /\ presenceRows(presence, q, last.userName) # {}
          /\ \E r \in files : r.room_id = q
          /\ \E c \in clientsOf(roomClients, q) : conns[c].state = "open"

(***************************************************************************)
(* The spellings of a room id.  One room, named in every request by its    *)
(* code, by the lower-case spelling of the code or by a mixed one.         *)
(***************************************************************************)
\* every second character in lower case
toMixedCase(s) == [i \in DOMAIN s |-> IF i % 2 = 0 THEN toLowerChar(s[i]) ELSE s[i]]

Spellings(code) == {code, toLowerCase(code), toMixedCase(code)}

isUpperCase(s) == \A i \in DOMAIN s : \A j \in DOMAIN LowerChars : s[i] # LowerChars[j]

NextCase ==
    \/ CreateRoom
    \/ GetRoomReq(Spellings(RoomA))
    \/ StreamReq(Spellings(RoomA), {"ann"})
    \/ CloseEvent
    \/ ListFilesReq(Spellings(RoomA))
    \/ UpsertFileReq(Spellings(RoomA), {"a.txt"}, Contents, {"ben"})
    \/ DeleteFileReq(Spellings(RoomA), {"a.txt"}, {"ben"})
    \/ RenameFileReq(Spellings(RoomA), {"a.txt"}, {"b.txt"}, {"ben"})
    \/ UpsertPresenceReq(Spellings(RoomA), {"ben"}, Colors, {Undef})
    \/ DeletePresenceReq(Spellings(RoomA), {"ben"})

SpecCase == Init /\ [][NextCase]_vars

\* C16: no room, file row, presence row, key of roomClients or connection
\* carries a room id with a lower-case letter; and a step of a handler for a
\* request that names a room by any spelling of its code, with the fields
\* last records of it, is the step the handler takes on the code itself:
\* the same answer, the same rows, the same registrations, the same writes.
C16_Canonical ==
    /\ [](/\ \A id \in rooms : isUpperCase(id)
          /\ \A r \in files : isUpperCase(r.room_id)
          /\ \A r \in presence : isUpperCase(r.room_id)
          /\ \A k \in DOMAIN roomClients : isUpperCase(k)
          /\ \A c \in ConnIds : isUpperCase(conns[c].roomId))
    /\ [][\A code \in RoomCodes :
            LET o == last' IN
            o.roomId \in Spellings(code) =>
                /\ o.op = "getRoom" => GetRoomAs(o.roomId, code)
                /\ o.op = "listFiles" => ListFilesAs(o.roomId, code)
                /\ o.op = "stream" => StreamAs(o.roomId, code, o.userName)
                /\ o.op = "upsertFile" =>
                      UpsertFileAs(o.roomId, code, o.filename, o.arg, o.userName)
                /\ o.op = "deleteFile" => DeleteFileAs(o.roomId, code, o.filename, o.userName)
                /\ o.op = "renameFile" =>
                      RenameFileAs(o.roomId, code, o.filename, o.arg, o.userName)
                /\ o.op = "upsertPresence" =>
                      UpsertPresenceAs(o.roomId, code, o.userName, o.arg, o.filename)
                /\ o.op = "deletePresence" => DeletePresenceAs(o.roomId, code, o.userName)]_vars

\* a request that named the room by a spelling with lower-case letters has
\* just changed its rows and written the event to an open stream of the room
C16_Witness ==
    /\ last.op \in {"upsertFile", "renameFile", "upsertPresence"}
    /\ last.status = 200
    /\ ~isUpperCase(last.roomId)
    /\ \E c \in clientsOf(roomClients, RoomOf(last)) :
          /\ conns[c].state = "open"
          /\ conns[c].recv[Len(conns[c].recv)] = last.pub[1].ev

(***************************************************************************)
(* The delta query of the pull transport.  server.js has no statement that *)
(* reads updated_at and no poll route: the two definitions below follow    *)
(* the description of listChangedSince and poll, over the files table and  *)
(* the clock of server.js.                                                 *)
(***************************************************************************)
\* every file of the room whose updated_at is greater than the cursor
listChangedSince(fs, roomId, sinceTimestamp) ==
    {[filename |-> r.filename, content |-> r.content] :
        r \in {q \in fs : q.room_id = roomId /\ q.updated_at > sinceTimestamp}}

\* poll(roomId, sinceTimestamp) -> {changedFiles, livePresence, serverTime}
Poll(id, sinceTimestamp) ==
    LET roomId == toUpperCase(id)
        reply(status, body) ==
            Outcome("poll", id, "", sinceTimestamp, "", status, body, NoPub, 0, {})
    IN
    /\ last' = IF ~roomExists(rooms, roomId)
               THEN reply(404, NotFound)
               ELSE reply(200, [changedFiles |->
                                    fileMapOf(listChangedSince(files, roomId, sinceTimestamp)),
                                livePresence |-> getPresence(presence, roomId, now),
                                serverTime |-> now])
    /\ UNCHANGED <<rooms, files, presence, roomClients, conns, now>>

\* the cursor of a poll is 0 or the serverTime of an earlier poll
PollReq(ids) == \E id \in ids, t \in 0..now : Poll(id, t)

NextPoll ==
    \/ CreateRoom
    \/ UpsertFileReq({RoomA}, {"a.txt", "b.txt"}, Opt(Contents), {"ann"})
    \/ DeleteFileReq({RoomA}, {"a.txt"}, {"ann"})
    \/ PollReq({RoomA})
    \/ Tick(MaxTime)

SpecPoll == Init /\ [][NextPoll]_vars

\* C18, as claimed: a poll returns exactly the files of the room whose
\* updated_at is greater than its cursor; a poll right after a poll, with the
\* serverTime of that one as its cursor, returns no file; and a file written
\* right after a poll is among the files a poll with the serverTime of that
\* poll as its cursor returns.
C18_NoWriteMissed ==
    [][/\ last'.op = "poll" /\ last'.status = 200 =>
            /\ DOMAIN last'.body.changedFiles =
                  {r.filename : r \in {q \in files' : q.room_id = RoomOf(last')
                                                       /\ q.updated_at > last'.arg}}
            /\ \A f \in DOMAIN last'.body.changedFiles :
                  last'.body.changedFiles[f] = listFiles(files', RoomOf(last'))[f]
       /\ /\ last.op = "poll" /\ last.status = 200
          /\ last'.op = "poll" /\ last'.status = 200
          /\ RoomOf(last') = RoomOf(last)
          /\ last'.arg = last.body.serverTime
          => DOMAIN last'.body.changedFiles = {}
       /\ /\ last.op = "poll" /\ last.status = 200
          /\ last'.op = "upsertFile" /\ last'.status = 200
          /\ RoomOf(last') = RoomOf(last)
          => \E e \in listChangedSince(files', RoomOf(last), last.body.serverTime) :
                e.filename = last'.filename]_vars

(***************************************************************************)
(* The life of the streams of one room: they are opened, kept alive, lose  *)
(* their peer and are closed, while requests publish to the room.          *)
(***************************************************************************)
NextLifecycle ==
    \/ CreateRoom
    \/ StreamReq({RoomA}, Users)
    \/ HeartbeatEvent
    \/ BreakEvent
    \/ CloseEvent
    \/ UpsertFileReq({RoomA}, {"a.txt"}, Contents, {"ann"})
    \/ UpsertPresenceReq({RoomA}, {"ben"}, Colors, {Undef})

SpecLifecycle == Init /\ [][NextLifecycle]_vars

\* C19: in every state the connections registered for a room are exactly
\* the ones opened on it whose close handler has not run; a connection whose
\* close handler has run has had nothing written to it by that handler or
\* since, neither an event nor a keep-alive, and no step changes it again.
C19_SubscriberLifecycle ==
    /\ [](/\ \A roomId \in RequestIds :
                clientsOf(roomClients, roomId) =
                    {c \in ConnIds : /\ conns[c].state \in {"open", "broken"}
                                     /\ conns[c].roomId = roomId}
          /\ \A k \in DOMAIN roomClients : k \in RequestIds
          /\ \A c \in ConnIds : conns[c].state = "closed" => conns[c] = ClosedConn)
    /\ [][\A c \in ConnIds : conns[c].state = "closed" => conns'[c] = conns[c]]_vars

\* the close handler of a stream has just run: it wrote nothing to that
\* stream, and its presence event has reached another stream of the room,
\* which is still registered and has received a keep-alive
C19_Witness ==
    /\ last.op = "close"
    /\ conns[last.conn] = ClosedConn
    /\ last.conn \notin clientsOf(roomClients, last.roomId)
    /\ \E d \in clientsOf(roomClients, last.roomId) :
          /\ conns[d].state = "open"
          /\ conns[d].beats > 0
          /\ conns[d].recv[Len(conns[d].recv)] = last.pub[1].ev

(***************************************************************************)
(* The replica of a subscriber.  The streams of one room are opened under  *)
(* a user name that no file request carries, and stay connected until      *)
(* they are closed; the file requests succeed, change nothing or fail.     *)
(***************************************************************************)
NextReplica ==
    \/ CreateRoom
    \/ StreamReq({RoomA}, {"ben"})
    \/ CloseEvent
    \/ UpsertFileReq({RoomA}, Opt({"a.txt", "b.txt"}), Opt(Contents), Opt({"ann"}))
    \/ DeleteFileReq({RoomA}, {"a.txt", "b.txt"}, Opt({"ann"}))
    \/ RenameFileReq({RoomA}, {"a.txt", "b.txt"}, Opt({"a.txt", "b.txt"}), Opt({"ann"}))

SpecReplica == Init /\ [][NextReplica]_vars

\* the file map of a subscriber after one more event: init replaces it,
\* file:update sets a name, file:delete removes one, file:rename moves the
\* content of the old name, if the map has it, to the new name
applyEvent(m, e) ==
    IF e.event = "init" THEN e.data.files
    ELSE IF e.event = "file:update"
    THEN [f \in DOMAIN m \cup {e.data.filename} |->
            IF f = e.data.filename THEN e.data.content ELSE m[f]]
    ELSE IF e.event = "file:delete"
    THEN [f \in DOMAIN m \ {e.data.filename} |-> m[f]]
    ELSE IF e.event = "file:rename" /\ e.data.oldName \in DOMAIN m
    THEN [f \in (DOMAIN m \ {e.data.oldName}) \cup {e.data.newName} |->
            IF f = e.data.newName THEN m[e.data.oldName] ELSE m[f]]
    ELSE m

RECURSIVE replica(_)
replica(log) ==
    IF log = <<>> THEN fileMapOf({})
    ELSE applyEvent(replica(SubSeq(log, 1, Len(log) - 1)), log[Len(log)])

\* C20: in every state, so after every handler that has run, the file map
\* that an open stream's events give, applied in the order they arrived, is
\* the file list of its room.
C20_ReplicaConverges ==
    \A c \in ConnIds :
        conns[c].state = "open" /\ ~conns[c].failed =>
            replica(conns[c].recv) = listFiles(files, conns[c].roomId)

\* a file request has just changed the files of a room that had files when
\* an open stream got its init event, and the stream has received the event
C20_Witness ==
    /\ last.op \in FileOps
    /\ last.status = 200
    /\ \E c \in ConnIds :
          /\ conns[c].state = "open"
          /\ Len(conns[c].recv) = 3
          /\ DOMAIN conns[c].recv[1].data.files # {}
          /\ conns[c].recv[3] = last.pub[1].ev
          /\ replica(conns[c].recv) # conns[c].recv[1].data.files
          /\ DOMAIN replica(conns[c].recv) # {}

====
